---- MODULE Spec2Model ----
(***************************************************************************)
(* A model of the metaMS LC-MS pipelines: the lipid reference-library      *)
(* builder (lipid_metadata_prepper.py), the two-phase lipidomics workflow   *)
(* (lcms_lipidomics_workflow.py) and the per-polarity metabolomics workflow *)
(* (lcms_metabolomics_workflow.py).                                         *)
(*                                                                         *)
(* Masses are integers in units of 0.001 Da and are compared exactly; the   *)
(* ms2 peak distances of fe_kwargs are integers in units of 0.01 Da.        *)
(* Arrays are TLA+ sequences (1-based); numpy indices are kept 0-based and  *)
(* read through At, which wraps negative indices as numpy does.             *)
(***************************************************************************)
EXTENDS Integers, Sequences, FiniteSets, TLC

VARIABLES
    \* ---- one call of find_closest / get_lipid_library (SpecLib)
    mz_list,      \* the observed precursor masses handed to get_lipid_library
    catalog,      \* rows of lipidMassSpectrumObject in the sqlite database
    polarity,     \* the polarity argument
    lib_pc,       \* "call", "find_closest", "returned"
    fc_target,    \* the target of the last find_closest call
    fc_out,       \* its outcome
    lib_out,      \* the outcome of get_lipid_library
    \* ---- one call of _to_flashentropy (SpecFE)
    fe_kwargs,    \* the two ms2 distance parameters of fe_kwargs
    metabref_lib, \* the number of spectra of the library to convert
    fe_pc,        \* "check", "convert", "build", "returned", "raised"
    fe_lib,       \* the number of spectra converted and appended so far
    fes,          \* the FlashEntropySearch object: "none", "created", "indexed"
    \* ---- one run of a workflow (SpecWorkflow)
    workflow,     \* "lipidomics" or "metabolomics"
    files,        \* the input files: polarity, whether phase 1 fails, precursor masses
    cores,        \* the requested worker count
    pc,           \* the position of the coordinator
    group,        \* the polarity group being run (metabolomics)
    stage,        \* the progress of each file
    seq_i,        \* the loop index of the coordinator over the jobs
    mz_dicts,     \* the mz_dict results of phase 1 (lipidomics)
    metadata,     \* prep_metadata's result / the contents of metadata.pkl
    loaded,       \* the index each file's process_ms2 searched
    results,      \* the list collected from executor.map
    dispatch,     \* the last dispatch decision: mode, workers, jobs
    error,        \* the exception that ended the run, "none" if none
    builds,       \* how often an index was built, by polarity and resolution tier
    \* ---- one sequential run in detail: pre-flight, routing, matching (SpecRouting)
    rt_pc,        \* the position of the run
    fs,           \* the paths that exist on the filesystem
    scan_translator, \* the routing table of the run, NoTable when none is supplied
    rt_n,         \* the number of input files
    rt_i,         \* the file being processed
    scan_df,      \* the scans of the file being processed
    rt_status,    \* the outcome of each file
    fe_calls,     \* the fe_search calls process_ms2 made for each file
    rt_error,     \* the exception that ended the run, "none" if none
    rt_polarity,  \* the polarity of the files of the run
    rt_metadata,  \* the contents of metadata.pkl
    \* ---- one run of run_nmdc_metabolomics_workflow (SpecGcms)
    gc_pc,        \* the position of the coordinator
    file_paths,   \* the input files, named by their position; whether the worker fails
    jobs,         \* the size of the process pool
    gc_stage,     \* the progress of each worker task
    gc_ready,     \* the results not yet taken from imap_unordered, oldest first
    gc_i,         \* the counter of enumerate
    gc_written,   \* the exports made: the path's file and the result's file
    \* ---- the paths of one run: pre-flight, parsers, output paths (SpecPaths)
    p_pc,         \* the position of the run
    p_paths,      \* file_paths, the input paths of the run
    p_i,          \* the file being processed
    p_parsers,    \* the parser instantiate_lcms_obj gave each file
    p_out,        \* out_paths_list
    p_written,    \* the exports made: the output path and the file written to it
    p_error,      \* the exception that ended the run, "none" if none
    \* ---- the batch script and its re-runs (SpecBatch)
    b_pc,         \* the position of the script
    input_files,  \* the files find_raw_and_mzml_files returned
    out_fs,       \* the output directory: what exists under <stem>.corems
    files_to_process,  \* the first list check_already_processed returned
    already_processed, \* the second list
    b_run,        \* the number of the script's run
    b_last        \* how the workflow of the last run ended

libVars == <<mz_list, catalog, polarity, lib_pc, fc_target, fc_out, lib_out>>

feVars == <<fe_kwargs, metabref_lib, fe_pc, fe_lib, fes>>

wfVars == <<workflow, files, cores, pc, group, stage, seq_i, mz_dicts, metadata,
            loaded, results, dispatch, error, builds>>

rtVars == <<rt_pc, fs, scan_translator, rt_n, rt_i, scan_df, rt_status, fe_calls, rt_error,
            rt_polarity, rt_metadata>>

gcVars == <<gc_pc, file_paths, jobs, gc_stage, gc_ready, gc_i, gc_written>>

pVars == <<p_pc, p_paths, p_i, p_parsers, p_out, p_written, p_error>>

bVars == <<b_pc, input_files, out_fs, files_to_process, already_processed, b_run, b_last>>

vars == <<libVars, feVars, wfVars, rtVars, gcVars, pVars, bVars>>

(***************************************************************************)
(* Bounds and program constants                                            *)
(***************************************************************************)
MaxLen == 3            \* longest query-mass list of a library call
MaxSpectra == 3        \* most spectra of a library handed to _to_flashentropy
MaxFiles == 3          \* most input files of a run
MaxCores == 2          \* largest requested worker count

MzTolPpm == 5          \* mz_tol_ppm passed by prep_metadata
PpmScale == 1000000    \* the 1e6 of the ppm error

\* Observed and reference precursor masses, 0.001 Da: 200.000 .. 400.002
MzValues == {200000, 200001, 200002, 200004, 400000, 400002}

Polarities == {"positive", "negative"}

\* The rows the database may hold: id, polarity, precursor_mz, molecular_data_id
ReferenceCatalog ==
    { [id |-> 1, polarity |-> "positive", precursor_mz |-> 200001, molecular_data_id |-> 11],
      [id |-> 2, polarity |-> "positive", precursor_mz |-> 400002, molecular_data_id |-> 12],
      [id |-> 3, polarity |-> "negative", precursor_mz |-> 200001, molecular_data_id |-> 13],
      [id |-> 4, polarity |-> "positive", precursor_mz |-> 200002, molecular_data_id |-> 11],
      [id |-> 5, polarity |-> "negative", precursor_mz |-> 400000, molecular_data_id |-> 14] }

(***************************************************************************)
(* Helpers                                                                 *)
(***************************************************************************)
Abs(x) == IF x < 0 THEN -x ELSE x

Min2(a, b) == IF a < b THEN a ELSE b

Max2(a, b) == IF a > b THEN a ELSE b

SeqToSet(s) == { s[i] : i \in 1..Len(s) }

IsSorted(s) == \A i \in 1..Len(s) - 1 : s[i] <= s[i + 1]

IsDistinct(s) == \A i, j \in 1..Len(s) : i # j => s[i] # s[j]

\* all sequences over S of length at most n
SeqsUpTo(S, n) == UNION { [1..k -> S] : k \in 0..n }

RECURSIVE InsertSorted(_, _)
InsertSorted(s, x) ==
    IF s = <<>> THEN <<x>>
    ELSE IF x < Head(s) THEN <<x>> \o s
    ELSE <<Head(s)>> \o InsertSorted(Tail(s), x)

\* DataFrame.sort_values: ascending, duplicates kept
RECURSIVE sort_values(_)
sort_values(s) ==
    IF s = <<>> THEN <<>>
    ELSE InsertSorted(sort_values(Tail(s)), Head(s))

(***************************************************************************)
(* find_closest (lipid_metadata_prepper.py), for one target value.  The     *)
(* source is vectorised over the targets: with no target nothing is         *)
(* indexed.                                                                *)
(***************************************************************************)
\* numpy searchsorted, side="left": the number of elements below the target
searchsorted(A, target) == Cardinality({ i \in 1..Len(A) : A[i] < target })

\* numpy clip is minimum(maximum(x, lo), hi), also when lo > hi
clip(x, lo, hi) == Min2(Max2(x, lo), hi)

\* numpy indexing with a 0-based index: -Len..Len-1 are in bounds
InBounds(A, i) == i >= -Len(A) /\ i < Len(A)

At(A, i) == IF i >= 0 THEN A[i + 1] ELSE A[Len(A) + i + 1]

\* a tie-break that moves to the left neighbour also when the two are equally near
find_closest_step_TieLeft(A, target, idx) ==
    IF target - At(A, idx - 1) <= At(A, idx) - target THEN idx - 1 ELSE idx

\* idx -= target - left < right - target
find_closest_step(A, target, idx) ==
    IF target - At(A, idx - 1) < At(A, idx) - target THEN idx - 1 ELSE idx

find_closest(A, target) ==
    LET idx == clip(searchsorted(A, target), 1, Len(A) - 1)
    IN  IF ~InBounds(A, idx - 1) \/ ~InBounds(A, idx)
        THEN [err |-> "IndexError", idx |-> 0]
        ELSE [err |-> "none", idx |-> find_closest_step(A, target, idx)]

(***************************************************************************)
(* _to_flashentropy: the parameter check that precedes all index work       *)
(***************************************************************************)
NoValue == -1   \* a key that fe_kwargs does not hold

\* the check the docstring describes: the two values differ
fe_kwargs_error_NotEqual(kw) ==
    IF kw.min_ms2_difference_in_da # NoValue \/ kw.max_ms2_tolerance_in_da # NoValue
    THEN IF kw.min_ms2_difference_in_da = NoValue \/ kw.max_ms2_tolerance_in_da = NoValue
         THEN "ValueError"
         ELSE IF kw.min_ms2_difference_in_da # kw.max_ms2_tolerance_in_da
              THEN "ValueError"
              ELSE "none"
    ELSE "none"

fe_kwargs_error(kw) ==
    IF kw.min_ms2_difference_in_da # NoValue \/ kw.max_ms2_tolerance_in_da # NoValue
    THEN IF kw.min_ms2_difference_in_da = NoValue \/ kw.max_ms2_tolerance_in_da = NoValue
         THEN "ValueError"
         ELSE IF kw.min_ms2_difference_in_da # 2 * kw.max_ms2_tolerance_in_da
              THEN "ValueError"
              ELSE "none"
    ELSE "none"

\* the fe_kwargs prep_metadata passes: 0.02 and 0.01 Da
HighResKwargs == [min_ms2_difference_in_da |-> 2, max_ms2_tolerance_in_da |-> 1]

(***************************************************************************)
(* get_lipid_library (lipid_metadata_prepper.py)                            *)
(***************************************************************************)
\* |ref - obs| / ref * 1e6 <= tol, over the integers:
\* |ref - obs| * 1e6 <= tol * ref  iff  |ref - obs| <= floor(tol * ref / 1e6)
ppm_within(ref, obs, tol) == Abs(ref - obs) <= (tol * ref) \div PpmScale

\* a Python tuple of n ids formatted into "... WHERE id IN {ids}": "()" for
\* n = 0 and "(a, b)" for n >= 2 are SQL lists, "(a,)" for n = 1 is not
sql_in_list_ok(n) == n # 1

\* a filter that forgets the polarity column
polarity_subset_AllRows(db, pol) == db

\* mz_all[mz_all['polarity'] == polarity]
polarity_subset(db, pol) == { e \in db : e.polarity = pol }

LibraryError(e) ==
    [status |-> e, compared |-> {}, mz_subset |-> {}, fe_lib |-> {}, lipid_metadata |-> {}]

get_lipid_library(db, mzs, pol, mz_tol_ppm, fe_kw) ==
    LET mz_obs_arr == sort_values(mzs)
        by_polarity == polarity_subset(db, pol)
        closest(e) == find_closest(mz_obs_arr, e.precursor_mz)
        mz_subset == { e \in by_polarity :
                         ppm_within(e.precursor_mz, At(mz_obs_arr, closest(e).idx), mz_tol_ppm) }
        ids == { e.id : e \in mz_subset }
        \* one row per id, so one molecular id per row, repeats kept
        n_mol_ids == Cardinality(ids)
    IN  IF \E e \in by_polarity : closest(e).err # "none"
        THEN LibraryError("IndexError")
        ELSE IF ~sql_in_list_ok(Cardinality(ids)) \/ ~sql_in_list_ok(n_mol_ids)
        THEN [LibraryError("DatabaseError") EXCEPT
                 !.compared = { e.id : e \in by_polarity }, !.mz_subset = ids]
        ELSE IF fe_kwargs_error(fe_kw) # "none"
        THEN [LibraryError("ValueError") EXCEPT
                 !.compared = { e.id : e \in by_polarity }, !.mz_subset = ids]
        ELSE [status |-> "ok",
              compared |-> { e.id : e \in by_polarity },
              mz_subset |-> ids,
              fe_lib |-> ids,
              lipid_metadata |-> { e.molecular_data_id : e \in mz_subset }]

(***************************************************************************)
(* SpecLib: one call of find_closest and of get_lipid_library on inputs     *)
(* drawn from the bounded sets                                             *)
(***************************************************************************)
NoCall == [err |-> "none", idx |-> 0]

\* no library call is in progress
LibIdle ==
    /\ mz_list = <<>>
    /\ catalog = {}
    /\ polarity = "positive"
    /\ lib_pc = "idle"
    /\ fc_target = 0
    /\ fc_out = NoCall
    /\ lib_out = LibraryError("none")

\* no _to_flashentropy call is in progress
FEIdle ==
    /\ fe_kwargs = [min_ms2_difference_in_da |-> NoValue, max_ms2_tolerance_in_da |-> NoValue]
    /\ metabref_lib = 0
    /\ fe_pc = "idle"
    /\ fe_lib = 0
    /\ fes = "none"

NoIndex == [built |-> FALSE, polarity |-> "none", spectra |-> {}]

None == [some |-> FALSE, val |-> <<>>]

Some(v) == [some |-> TRUE, val |-> v]

NoMetadata ==
    [status |-> "none",
     mzs |-> [p \in Polarities |-> None],
     calls |-> [p \in Polarities |-> LibraryError("none")],
     fe |-> [p \in Polarities |-> NoIndex],
     fe_lr |-> [p \in Polarities |-> NoIndex],
     molecular_metadata |-> {}]

NoDispatch == [mode |-> "none", workers |-> 0, jobs |-> 0]

\* no index has been built
NoBuilds == [p \in Polarities |-> [high |-> 0, low |-> 0]]

\* no workflow is running
WfIdle ==
    /\ workflow = "none"
    /\ files = <<>>
    /\ cores = 1
    /\ pc = "idle"
    /\ group = "none"
    /\ stage = <<>>
    /\ seq_i = 0
    /\ mz_dicts = <<>>
    /\ metadata = NoMetadata
    /\ loaded = <<>>
    /\ results = <<>>
    /\ dispatch = NoDispatch
    /\ error = "none"
    /\ builds = NoBuilds

Tiers == {"high", "low"}

\* the routing table is absent: scan_translator is None
NoTable == [supplied |-> FALSE, keys |-> {}]

\* no detailed run is in progress
RtIdle ==
    /\ rt_pc = "idle"
    /\ fs = {}
    /\ scan_translator = NoTable
    /\ rt_n = 0
    /\ rt_i = 0
    /\ scan_df = <<>>
    /\ rt_status = <<>>
    /\ fe_calls = <<>>
    /\ rt_error = "none"
    /\ rt_polarity = "positive"
    /\ rt_metadata = NoMetadata

\* no GC-MS run is in progress
GcIdle ==
    /\ gc_pc = "idle"
    /\ file_paths = <<>>
    /\ jobs = 0
    /\ gc_stage = <<>>
    /\ gc_ready = <<>>
    /\ gc_i = 0
    /\ gc_written = {}

\* no run is followed through its paths
PIdle ==
    /\ p_pc = "idle"
    /\ p_paths = <<>>
    /\ p_i = 0
    /\ p_parsers = <<>>
    /\ p_out = <<>>
    /\ p_written = {}
    /\ p_error = "none"

\* the batch script is not running
BIdle ==
    /\ b_pc = "idle"
    /\ input_files = <<>>
    /\ out_fs = <<>>
    /\ files_to_process = <<>>
    /\ already_processed = <<>>
    /\ b_run = 0
    /\ b_last = "none"

LibInit ==
    /\ PIdle
    /\ BIdle
    /\ RtIdle
    /\ GcIdle
    /\ FEIdle
    /\ WfIdle
    /\ mz_list \in SeqsUpTo(MzValues, MaxLen)
    /\ catalog \in SUBSET ReferenceCatalog
    /\ polarity \in Polarities
    /\ lib_pc = "call"
    /\ fc_target = 0
    /\ fc_out = NoCall
    /\ lib_out = LibraryError("none")

\* find_closest(mz_obs_arr, target) on the sorted query masses
FindClosestCall ==
    /\ lib_pc = "call"
    /\ \E t \in MzValues :
          /\ fc_target' = t
          /\ fc_out' = find_closest(sort_values(mz_list), t)
    /\ lib_pc' = "find_closest"
    /\ UNCHANGED <<mz_list, catalog, polarity, lib_out, feVars, wfVars, rtVars, gcVars, pVars, bVars>>

GetLipidLibraryCall ==
    /\ lib_pc = "call"
    /\ lib_out' = get_lipid_library(catalog, mz_list, polarity, MzTolPpm, HighResKwargs)
    /\ lib_pc' = "returned"
    /\ UNCHANGED <<mz_list, catalog, polarity, fc_target, fc_out, feVars, wfVars, rtVars, gcVars, pVars, bVars>>

LibNext == FindClosestCall \/ GetLipidLibraryCall

SpecLib == LibInit /\ [][LibNext]_vars

(***************************************************************************)
(* SpecFE: one call of _to_flashentropy, statement by statement             *)
(***************************************************************************)
\* ms2 distances in 0.01 Da: 0.02 and 0.4 (merge), 0.01 and 0.2 (window)
MinDiffValues == {NoValue, 2, 3, 40}

MaxTolValues == {NoValue, 1, 2, 20}

FEInit ==
    /\ PIdle
    /\ BIdle
    /\ RtIdle
    /\ GcIdle
    /\ LibIdle
    /\ WfIdle
    /\ fe_kwargs \in [min_ms2_difference_in_da : MinDiffValues,
                      max_ms2_tolerance_in_da : MaxTolValues]
    /\ metabref_lib \in 0..MaxSpectra
    /\ fe_pc = "check"
    /\ fe_lib = 0
    /\ fes = "none"

\* the two raises at the head of the function
ToFlashentropyCheck ==
    /\ fe_pc = "check"
    /\ fe_pc' = IF fe_kwargs_error(fe_kwargs) # "none" THEN "raised" ELSE "convert"
    /\ UNCHANGED <<fe_kwargs, metabref_lib, fe_lib, fes, libVars, wfVars, rtVars, gcVars, pVars, bVars>>

\* one turn of the loop over metabref_lib: spectrum_to_array, fe_lib.append
ToFlashentropyConvert ==
    /\ fe_pc = "convert"
    /\ fe_lib < metabref_lib
    /\ fe_lib' = fe_lib + 1
    /\ UNCHANGED <<fe_kwargs, metabref_lib, fe_pc, fes, libVars, wfVars, rtVars, gcVars, pVars, bVars>>

\* fes = FlashEntropySearch(**fe_init_kws)
ToFlashentropyInit ==
    /\ fe_pc = "convert"
    /\ fe_lib = metabref_lib
    /\ fes' = "created"
    /\ fe_pc' = "build"
    /\ UNCHANGED <<fe_kwargs, metabref_lib, fe_lib, libVars, wfVars, rtVars, gcVars, pVars, bVars>>

\* fes.build_index(fe_lib, ...); return fes
ToFlashentropyBuild ==
    /\ fe_pc = "build"
    /\ fes' = "indexed"
    /\ fe_pc' = "returned"
    /\ UNCHANGED <<fe_kwargs, metabref_lib, fe_lib, libVars, wfVars, rtVars, gcVars, pVars, bVars>>

FENext ==
    \/ ToFlashentropyCheck
    \/ ToFlashentropyConvert
    \/ ToFlashentropyInit
    \/ ToFlashentropyBuild

SpecFE == FEInit /\ [][FENext]_vars

(***************************************************************************)
(* Claims on _to_flashentropy, checked under SpecFE                         *)
(***************************************************************************)
OnlyOneGiven(kw) ==
    (kw.min_ms2_difference_in_da = NoValue) # (kw.max_ms2_tolerance_in_da = NoValue)

BothGivenNotDouble(kw) ==
    /\ kw.min_ms2_difference_in_da # NoValue
    /\ kw.max_ms2_tolerance_in_da # NoValue
    /\ kw.min_ms2_difference_in_da # 2 * kw.max_ms2_tolerance_in_da

mz_obs_arr == sort_values(mz_list)

FindClosestReturned ==
    lib_pc = "find_closest" /\ Len(mz_obs_arr) >= 1 /\ IsDistinct(mz_obs_arr)

\* the target lies exactly half way between two neighbouring elements
TieAt(A, t, i) ==
    i \in 1..Len(A) - 1 /\ A[i] < t /\ t < A[i + 1] /\ t - A[i] = A[i + 1] - t

IsNearest(A, t, v) == \A j \in 1..Len(A) : Abs(v - t) <= Abs(A[j] - t)

\* C5 as stated: for a sorted array A of distinct values of any length >= 1
\* and any target t, find_closest returns an index in 0..len(A)-1 whose
\* element minimizes |A[i] - t|, and on an exact tie between the two
\* bracketing elements it returns the lower index.
C5_FindClosestTieLower ==
    FindClosestReturned =>
        /\ fc_out.err = "none"
        /\ fc_out.idx \in 0..Len(mz_obs_arr) - 1
        /\ IsNearest(mz_obs_arr, fc_target, At(mz_obs_arr, fc_out.idx))
        /\ \A i \in 1..Len(mz_obs_arr) - 1 :
              TieAt(mz_obs_arr, fc_target, i) => fc_out.idx = i - 1

\* C5 amended: find_closest returns without error an index whose element, read
\* as numpy reads it, minimizes |A[i] - t|; the index is in 0..len(A)-1 when
\* len(A) >= 2 and is 0 or -1 (both the single element) when len(A) = 1; on an
\* exact tie between the two bracketing elements it returns the higher index.
C5_FindClosestTieHigher ==
    FindClosestReturned =>
        /\ fc_out.err = "none"
        /\ InBounds(mz_obs_arr, fc_out.idx)
        /\ Len(mz_obs_arr) >= 2 => fc_out.idx \in 0..Len(mz_obs_arr) - 1
        /\ Len(mz_obs_arr) = 1 => fc_out.idx \in {-1, 0}
        /\ IsNearest(mz_obs_arr, fc_target, At(mz_obs_arr, fc_out.idx))
        /\ \A i \in 1..Len(mz_obs_arr) - 1 :
              TieAt(mz_obs_arr, fc_target, i) => fc_out.idx = i

\* a tie in an array of three elements, resolved to the higher index
C5_Witness ==
    /\ FindClosestReturned
    /\ Len(mz_obs_arr) = 3
    /\ \E i \in 1..2 : TieAt(mz_obs_arr, fc_target, i) /\ fc_out.idx = i

\* the entries the claim says are retained: tagged with the requested
\* polarity and within the tolerance of at least one query mass
WithinTolOfSomeQuery(e) ==
    \E q \in SeqToSet(mz_list) : ppm_within(e.precursor_mz, q, MzTolPpm)

\* C6: get_lipid_library retains a reference entry iff it is tagged with the
\* requested polarity and some query mass is within mz_tol_ppm of it; an
\* entry of another polarity is never compared with the query set and
\* never retained.
C6_RetainedIffPolarityAndPpm ==
    lib_pc = "returned" =>
        /\ lib_out.mz_subset =
              { e.id : e \in { x \in catalog : x.polarity = polarity /\ WithinTolOfSomeQuery(x) } }
        /\ \A e \in catalog :
              e.polarity # polarity => e.id \notin lib_out.compared \cup lib_out.mz_subset

\* an entry is retained, an entry of the same polarity is dropped, and an
\* entry of the other polarity with a mass in tolerance is left out
C6_Witness ==
    /\ lib_pc = "returned"
    /\ lib_out.mz_subset # {}
    /\ \E e \in catalog : e.polarity = polarity /\ e.id \notin lib_out.mz_subset
    /\ \E e \in catalog :
          e.polarity # polarity /\ WithinTolOfSomeQuery(e) /\ e.id \notin lib_out.mz_subset

\* C8: with an empty query-mass set and at least one catalog entry of the
\* polarity, get_lipid_library returns an empty index and does not raise.
C8_EmptyQueryEmptyIndex ==
    (lib_pc = "returned" /\ mz_list = <<>> /\ \E e \in catalog : e.polarity = polarity) =>
        lib_out.status = "ok" /\ lib_out.fe_lib = {}

(***************************************************************************)
(* prep_metadata (lcms_lipidomics_workflow.py)                              *)
(***************************************************************************)
\* the precursor lists a file's phase 1 may return (list(set(...)))
FileMzLists == { <<>>, <<200000>>, <<200000, 400000>>, <<200004>> }

\* for d in mz_dicts: metadata["mzs"].update(d)
RECURSIVE update_mzs(_, _)
update_mzs(mzs, dicts) ==
    IF dicts = <<>> THEN mzs
    ELSE update_mzs([mzs EXCEPT ![Head(dicts).polarity] = Some(Head(dicts).mzs)],
                    Tail(dicts))

Raised(out) == out.status \notin {"ok", "skipped", "none"}

IndexOf(out, p) ==
    IF out.status = "ok"
    THEN [built |-> TRUE, polarity |-> p, spectra |-> out.fe_lib]
    ELSE NoIndex

\* status "ok": the dict prep_metadata returns.  Any other status is the
\* exception it raised; the record then keeps what the call had computed.
prep_metadata(dicts, db) ==
    LET mzs == update_mzs([p \in Polarities |-> None], dicts)
        neg == IF mzs["negative"].some
               THEN get_lipid_library(db, mzs["negative"].val, "negative", MzTolPpm, HighResKwargs)
               ELSE LibraryError("skipped")
        pos == IF Raised(neg) THEN LibraryError("none")
               ELSE IF mzs["positive"].some
               THEN get_lipid_library(db, mzs["positive"].val, "positive", MzTolPpm, HighResKwargs)
               ELSE LibraryError("skipped")
        mol == neg.lipid_metadata \cup pos.lipid_metadata
        \* pd.concat of an empty list of frames raises ValueError
        status == IF Raised(neg) THEN neg.status
                  ELSE IF Raised(pos) THEN pos.status
                  ELSE IF mol = {} THEN "ValueError"
                  ELSE "ok"
    IN  [status |-> status,
         mzs |-> mzs,
         calls |-> [p \in Polarities |-> IF p = "negative" THEN neg ELSE pos],
         fe |-> [p \in Polarities |->
                   IF status = "ok" THEN IndexOf(IF p = "negative" THEN neg ELSE pos, p)
                   ELSE NoIndex],
         fe_lr |-> [p \in Polarities |-> NoIndex],
         molecular_metadata |-> IF status = "ok" THEN mol ELSE {}]

(***************************************************************************)
(* prepare_metadata (lcms_metabolomics_workflow.py): writes metadata.pkl    *)
(***************************************************************************)
\* the spectra of the MSP library, by polarity
MspSpectra(p) == { e.id : e \in polarity_subset(ReferenceCatalog, p) }

MspIndex(p) == [built |-> TRUE, polarity |-> p, spectra |-> MspSpectra(p)]

\* an index of the other polarity in the slot of p
prepare_metadata_OtherPolarity(generate_lr_metadata, pol) ==
    LET other == IF pol = "positive" THEN "negative" ELSE "positive"
    IN  [NoMetadata EXCEPT
            !.status = "ok",
            !.fe = [p \in Polarities |-> IF p = other THEN MspIndex(p) ELSE NoIndex]]

prepare_metadata(generate_lr_metadata, pol) ==
    [NoMetadata EXCEPT
        !.status = "ok",
        !.fe = [p \in Polarities |-> IF p = pol THEN MspIndex(p) ELSE NoIndex],
        !.fe_lr = [p \in Polarities |->
                     IF generate_lr_metadata /\ p = pol THEN MspIndex(p) ELSE NoIndex],
        !.molecular_metadata = MspSpectra(pol)]

\* the scan translator of the run: the default table, one key of high resolution
ScanTranslator == { [key |-> "ms2", scan_filter |-> "", resolution |-> "high"] }

generate_lr_metadata == ~ \A x \in ScanTranslator : x.resolution = "high"

(***************************************************************************)
(* The coordinators and their jobs                                         *)
(***************************************************************************)
N == Len(files)

Idx == 1..N

\* the files of a polarity group, as indices in input order
GroupIdx(g) == { i \in Idx : files[i].polarity = g }

MinOf(S) == CHOOSE x \in S : \A y \in S : x <= y

InStage(S, st) == { i \in S : stage[i] = st }

\* format: the reader instantiate_lcms_obj selects from the file name;
\* lr: the file has ms2 scans that the scan translator routes to a key of low
\* resolution
LipidFiles == [polarity : Polarities, bad : BOOLEAN, mzs : FileMzLists,
               format : {"mzML"}, lr : {FALSE}]

MetabFiles == [polarity : Polarities \cup {"unknown"}, bad : BOOLEAN, mzs : {<<>>},
               format : {"mzML"}, lr : {FALSE}]

\* the same runs over files of both formats, with and without low-resolution scans
LipidFilesByFormat == [polarity : Polarities, bad : BOOLEAN, mzs : {<<200000, 400000>>},
                       format : {"raw", "mzML"}, lr : BOOLEAN]

MetabFilesByFormat == [polarity : Polarities, bad : BOOLEAN, mzs : {<<>>},
                       format : {"raw", "mzML"}, lr : {FALSE}]

WfInitOver(lipid_files, metab_files) ==
    /\ PIdle
    /\ BIdle
    /\ RtIdle
    /\ GcIdle
    /\ LibIdle
    /\ FEIdle
    /\ workflow \in {"lipidomics", "metabolomics"}
    /\ \E n \in 1..MaxFiles :
          files \in [1..n -> IF workflow = "lipidomics" THEN lipid_files ELSE metab_files]
    /\ cores \in 0..MaxCores
    /\ pc = IF workflow = "lipidomics" THEN "ms1_dispatch" ELSE "group"
    /\ group = IF workflow = "lipidomics" THEN "none" ELSE "positive"
    /\ stage = [i \in 1..Len(files) |-> "pending"]
    /\ seq_i = 0
    /\ mz_dicts = <<>>
    /\ metadata = NoMetadata
    /\ loaded = [i \in 1..Len(files) |-> NoIndex]
    /\ results = <<>>
    /\ dispatch = NoDispatch
    /\ error = "none"
    /\ builds = NoBuilds

WfInit == WfInitOver(LipidFiles, MetabFiles)

DispatchInit == WfInitOver(LipidFilesByFormat, MetabFilesByFormat)

\* one more build of the index of polarity p and resolution tier t
CountBuild(b, p, t, built) ==
    IF built THEN [b EXCEPT ![p][t] = @ + 1] ELSE b

\* the position after "if cores == 1 or len(jobs) == 1: ... elif cores > 1: ..."
DispatchMode(n_jobs) ==
    IF cores = 1 \/ n_jobs = 1 THEN [mode |-> "sequential", workers |-> 1, jobs |-> n_jobs]
    ELSE IF cores > 1 THEN [mode |-> "pool", workers |-> cores, jobs |-> n_jobs]
    ELSE [mode |-> "none", workers |-> 0, jobs |-> n_jobs]

\* a worker of a pool of `cores` workers takes the oldest queued job
CanPick(S, f, queued, running) ==
    /\ stage[f] = queued
    /\ f = MinOf(InStage(S, queued))
    /\ Cardinality(InStage(S, running)) < cores

(*************************** lipidomics ***********************************)
\* run_lcms_lipidomics_workflow, lines 533-554: the dispatch of phase 1.
\* With neither branch taken mz_dicts is unbound at line 559.
L_DispatchMs1 ==
    /\ workflow = "lipidomics" /\ pc = "ms1_dispatch"
    /\ dispatch' = DispatchMode(N)
    /\ IF dispatch'.mode = "sequential"
       THEN /\ pc' = "ms1_seq" /\ seq_i' = 1
            /\ UNCHANGED <<stage, error>>
       ELSE IF dispatch'.mode = "pool"
       THEN /\ pc' = "ms1_pool"
            /\ stage' = [i \in Idx |-> "ms1_queued"]
            /\ UNCHANGED <<seq_i, error>>
       ELSE /\ pc' = "error" /\ error' = "UnboundLocalError"
            /\ UNCHANGED <<stage, seq_i>>
    /\ UNCHANGED <<workflow, files, cores, group, mz_dicts, metadata, loaded, results,
                   builds, libVars, feVars, rtVars, gcVars, pVars, bVars>>

\* one turn of the loop of lines 535-542: run_lipid_sp_ms1 on the next file
L_SeqMs1 ==
    /\ workflow = "lipidomics" /\ pc = "ms1_seq"
    /\ IF files[seq_i].bad
       THEN /\ stage' = [stage EXCEPT ![seq_i] = "ms1_failed"]
            /\ pc' = "error" /\ error' = "ValueError"
            /\ UNCHANGED <<mz_dicts, seq_i>>
       ELSE /\ stage' = [stage EXCEPT ![seq_i] = "ms1_done"]
            /\ mz_dicts' = Append(mz_dicts,
                                  [polarity |-> files[seq_i].polarity, mzs |-> files[seq_i].mzs])
            /\ seq_i' = seq_i + 1
            /\ pc' = IF seq_i = N THEN "prep" ELSE pc
            /\ UNCHANGED error
    /\ UNCHANGED <<workflow, files, cores, group, metadata, loaded, results, dispatch,
                   builds, libVars, feVars, rtVars, gcVars, pVars, bVars>>

\* a process of Pool(cores) takes the next task of starmap(run_lipid_sp_ms1, args)
L_PickMs1(f) ==
    /\ workflow = "lipidomics" /\ pc = "ms1_pool"
    /\ CanPick(Idx, f, "ms1_queued", "ms1_running")
    /\ stage' = [stage EXCEPT ![f] = "ms1_running"]
    /\ UNCHANGED <<workflow, files, cores, pc, group, seq_i, mz_dicts, metadata, loaded,
                   results, dispatch, error, builds, libVars, feVars, rtVars, gcVars, pVars, bVars>>

\* run_lipid_sp_ms1 in a worker returns its mz_dict or raises
L_JobMs1(f) ==
    /\ workflow = "lipidomics" /\ pc = "ms1_pool"
    /\ stage[f] = "ms1_running"
    /\ stage' = [stage EXCEPT ![f] = IF files[f].bad THEN "ms1_failed" ELSE "ms1_done"]
    /\ UNCHANGED <<workflow, files, cores, pc, group, seq_i, mz_dicts, metadata, loaded,
                   results, dispatch, error, builds, libVars, feVars, rtVars, gcVars, pVars, bVars>>

\* starmap returning as soon as one task has ended
L_StarmapMs1_NoWait ==
    /\ workflow = "lipidomics" /\ pc = "ms1_pool"
    /\ \E i \in Idx : stage[i] = "ms1_done"
    /\ pc' = "prep"
    /\ mz_dicts' = [i \in Idx |-> [polarity |-> files[i].polarity, mzs |-> files[i].mzs]]
    /\ UNCHANGED <<workflow, files, cores, group, stage, seq_i, metadata, loaded, results,
                   dispatch, error, builds, libVars, feVars, rtVars, gcVars, pVars, bVars>>

\* starmap handing back the results in the reverse of the input order
L_StarmapMs1_Reversed ==
    /\ workflow = "lipidomics" /\ pc = "ms1_pool"
    /\ \A i \in Idx : stage[i] \in {"ms1_done", "ms1_failed"}
    /\ IF \E i \in Idx : stage[i] = "ms1_failed"
       THEN /\ pc' = "error" /\ error' = "ValueError"
            /\ UNCHANGED mz_dicts
       ELSE /\ pc' = "prep"
            /\ mz_dicts' = [i \in Idx |-> [polarity |-> files[N + 1 - i].polarity,
                                            mzs |-> files[N + 1 - i].mzs]]
            /\ UNCHANGED error
    /\ UNCHANGED <<workflow, files, cores, group, stage, seq_i, metadata, loaded, results,
                   dispatch, builds, libVars, feVars, rtVars, gcVars, pVars, bVars>>

\* starmap returns the results in input order once every task has ended, or
\* raises the first exception
L_StarmapMs1 ==
    /\ workflow = "lipidomics" /\ pc = "ms1_pool"
    /\ \A i \in Idx : stage[i] \in {"ms1_done", "ms1_failed"}
    /\ IF \E i \in Idx : stage[i] = "ms1_failed"
       THEN /\ pc' = "error" /\ error' = "ValueError"
            /\ UNCHANGED mz_dicts
       ELSE /\ pc' = "prep"
            /\ mz_dicts' = [i \in Idx |-> [polarity |-> files[i].polarity, mzs |-> files[i].mzs]]
            /\ UNCHANGED error
    /\ UNCHANGED <<workflow, files, cores, group, stage, seq_i, metadata, loaded, results,
                   dispatch, builds, libVars, feVars, rtVars, gcVars, pVars, bVars>>

\* going on to phase 2 whatever prep_metadata did
L_PrepMetadata_IgnoreFailure ==
    /\ workflow = "lipidomics" /\ pc = "prep"
    /\ LET out == prep_metadata(mz_dicts, ReferenceCatalog)
       IN  /\ metadata' = out
           /\ builds' = CountBuild(CountBuild(builds, "negative", "high",
                                               out.calls["negative"].status = "ok"),
                                    "positive", "high", out.calls["positive"].status = "ok")
           /\ pc' = "ms2_dispatch" /\ mz_dicts' = <<>> /\ UNCHANGED error
    /\ UNCHANGED <<workflow, files, cores, group, stage, seq_i, loaded, results, dispatch,
                   libVars, feVars, rtVars, gcVars, pVars, bVars>>

\* lines 557-561: metadata = prep_metadata(mz_dicts, ...); del mz_dicts
L_PrepMetadata ==
    /\ workflow = "lipidomics" /\ pc = "prep"
    /\ LET out == prep_metadata(mz_dicts, ReferenceCatalog)
       IN  /\ metadata' = out
           /\ builds' = CountBuild(CountBuild(builds, "negative", "high",
                                               out.calls["negative"].status = "ok"),
                                    "positive", "high", out.calls["positive"].status = "ok")
           /\ IF out.status = "ok"
              THEN pc' = "ms2_dispatch" /\ mz_dicts' = <<>> /\ UNCHANGED error
              ELSE pc' = "error" /\ error' = out.status /\ UNCHANGED mz_dicts
    /\ UNCHANGED <<workflow, files, cores, group, stage, seq_i, loaded, results, dispatch,
                   libVars, feVars, rtVars, gcVars, pVars, bVars>>

\* lines 565-573: the dispatch of phase 2
L_DispatchMs2 ==
    /\ workflow = "lipidomics" /\ pc = "ms2_dispatch"
    /\ dispatch' = DispatchMode(N)
    /\ IF dispatch'.mode = "sequential"
       THEN pc' = "ms2_seq" /\ seq_i' = 1 /\ UNCHANGED stage
       ELSE IF dispatch'.mode = "pool"
       THEN pc' = "ms2_pool" /\ stage' = [i \in Idx |-> "ms2_queued"] /\ UNCHANGED seq_i
       ELSE pc' = "done" /\ UNCHANGED <<stage, seq_i>>
    /\ UNCHANGED <<workflow, files, cores, group, mz_dicts, metadata, loaded, results,
                   error, builds, libVars, feVars, rtVars, gcVars, pVars, bVars>>

\* one turn of the loop of lines 566-569: run_lipid_ms2 on the next file
L_SeqMs2 ==
    /\ workflow = "lipidomics" /\ pc = "ms2_seq"
    /\ loaded' = [loaded EXCEPT ![seq_i] = metadata.fe[files[seq_i].polarity]]
    /\ stage' = [stage EXCEPT ![seq_i] = "exported"]
    /\ seq_i' = seq_i + 1
    /\ pc' = IF seq_i = N THEN "done" ELSE pc
    \* process_ms2, lines 444-458: a file with low-resolution scans recasts the index
    /\ builds' = CountBuild(builds, files[seq_i].polarity, "low", files[seq_i].lr)
    /\ UNCHANGED <<workflow, files, cores, group, mz_dicts, metadata, results, dispatch,
                   error, libVars, feVars, rtVars, gcVars, pVars, bVars>>

\* a process of the pool starts run_lipid_ms2 with its copy of metadata
L_PickMs2(f) ==
    /\ workflow = "lipidomics" /\ pc = "ms2_pool"
    /\ CanPick(Idx, f, "ms2_queued", "ms2_running")
    /\ stage' = [stage EXCEPT ![f] = "ms2_running"]
    /\ loaded' = [loaded EXCEPT ![f] = metadata.fe[files[f].polarity]]
    /\ builds' = CountBuild(builds, files[f].polarity, "low", files[f].lr)
    /\ UNCHANGED <<workflow, files, cores, pc, group, seq_i, mz_dicts, metadata, results,
                   dispatch, error, libVars, feVars, rtVars, gcVars, pVars, bVars>>

\* process_ms2 and the final export end
L_JobMs2(f) ==
    /\ workflow = "lipidomics" /\ pc = "ms2_pool"
    /\ stage[f] = "ms2_running"
    /\ stage' = [stage EXCEPT ![f] = "exported"]
    /\ UNCHANGED <<workflow, files, cores, pc, group, seq_i, mz_dicts, metadata, loaded,
                   results, dispatch, error, builds, libVars, feVars, rtVars, gcVars, pVars, bVars>>

L_StarmapMs2 ==
    /\ workflow = "lipidomics" /\ pc = "ms2_pool"
    /\ \A i \in Idx : stage[i] = "exported"
    /\ pc' = "done"
    /\ UNCHANGED <<workflow, files, cores, group, stage, seq_i, mz_dicts, metadata, loaded,
                   results, dispatch, error, builds, libVars, feVars, rtVars, gcVars, pVars, bVars>>

LipidNext ==
    \/ L_DispatchMs1
    \/ L_SeqMs1
    \/ \E f \in Idx : L_PickMs1(f)
    \/ \E f \in Idx : L_JobMs1(f)
    \/ L_StarmapMs1
    \/ L_PrepMetadata
    \/ L_DispatchMs2
    \/ L_SeqMs2
    \/ \E f \in Idx : L_PickMs2(f)
    \/ \E f \in Idx : L_JobMs2(f)
    \/ L_StarmapMs2

(*************************** metabolomics *********************************)
\* after a polarity group: the negative group follows the positive one
GroupEnd ==
    IF group = "positive"
    THEN group' = "negative" /\ pc' = "group"
    ELSE group' = group /\ pc' = "done"

\* lines 498-504 and 528-532: a group with files has its metadata prepared
\* and written to metadata.pkl; an empty group is passed over
M_Group ==
    /\ workflow = "metabolomics" /\ pc = "group"
    /\ IF GroupIdx(group) # {}
       THEN \E msp_ok \in BOOLEAN :
              IF msp_ok
              THEN /\ metadata' = prepare_metadata(generate_lr_metadata, group)
                   /\ builds' = CountBuild(CountBuild(builds, group, "high", TRUE),
                                           group, "low", generate_lr_metadata)
                   /\ pc' = "dispatch"
                   /\ UNCHANGED <<group, error>>
              ELSE \* MSPInterface or the library build raises: nothing is written
                   /\ pc' = "error" /\ error' = "MSPError"
                   /\ UNCHANGED <<group, metadata, builds>>
       ELSE /\ GroupEnd
            /\ UNCHANGED <<metadata, builds, error>>
    /\ UNCHANGED <<workflow, files, cores, stage, seq_i, mz_dicts, loaded, results,
                   dispatch, libVars, feVars, rtVars, gcVars, pVars, bVars>>

\* lines 508-518 and 536-546: the dispatch of the group's jobs; executor.map
\* submits every job at once
M_Dispatch ==
    /\ workflow = "metabolomics" /\ pc = "dispatch"
    /\ dispatch' = DispatchMode(Cardinality(GroupIdx(group)))
    /\ IF dispatch'.mode = "sequential"
       THEN /\ pc' = "seq" /\ seq_i' = MinOf(GroupIdx(group))
            /\ UNCHANGED <<stage, group, results>>
       ELSE IF dispatch'.mode = "pool"
       THEN /\ pc' = "pool" /\ seq_i' = MinOf(GroupIdx(group))
            /\ stage' = [i \in Idx |-> IF i \in GroupIdx(group) THEN "queued" ELSE stage[i]]
            /\ results' = <<>>
            /\ UNCHANGED group
       ELSE /\ GroupEnd
            /\ UNCHANGED <<stage, seq_i, results>>
    /\ UNCHANGED <<workflow, files, cores, mz_dicts, metadata, loaded, error, builds, libVars, feVars, rtVars, gcVars, pVars, bVars>>

\* the next job of the group after f, 0 when f is the last
NextInGroup(f) ==
    IF \E i \in GroupIdx(group) : i > f
    THEN MinOf({ i \in GroupIdx(group) : i > f })
    ELSE 0

\* one turn of the sequential loop: process_complete_workflow(args) in the
\* coordinator; its except clause re-raises
M_SeqJob ==
    /\ workflow = "metabolomics" /\ pc = "seq"
    /\ IF files[seq_i].bad
       THEN /\ stage' = [stage EXCEPT ![seq_i] = "failed"]
            /\ pc' = "error" /\ error' = "ValueError"
            /\ UNCHANGED <<loaded, seq_i, group>>
       ELSE /\ stage' = [stage EXCEPT ![seq_i] = "exported"]
            /\ loaded' = [loaded EXCEPT ![seq_i] = metadata.fe[files[seq_i].polarity]]
            /\ IF NextInGroup(seq_i) # 0
               THEN seq_i' = NextInGroup(seq_i) /\ UNCHANGED <<pc, group>>
               ELSE GroupEnd /\ UNCHANGED seq_i
            /\ UNCHANGED error
    /\ UNCHANGED <<workflow, files, cores, mz_dicts, metadata, results, dispatch,
                   builds, libVars, feVars, rtVars, gcVars, pVars, bVars>>

\* a thread of ThreadPoolExecutor(max_workers=cores) takes the oldest pending
\* future and enters run_lcmetab_ms1
M_Pick(f) ==
    /\ workflow = "metabolomics" /\ pc \in {"pool", "shutdown"}
    /\ CanPick(GroupIdx(group), f, "queued", "ms1_running")
    /\ Cardinality(InStage(GroupIdx(group), "ms1_running"))
         + Cardinality(InStage(GroupIdx(group), "ms2_running")) < cores
    /\ stage' = [stage EXCEPT ![f] = "ms1_running"]
    /\ UNCHANGED <<workflow, files, cores, pc, group, seq_i, mz_dicts, metadata, loaded,
                   results, dispatch, error, builds, libVars, feVars, rtVars, gcVars, pVars, bVars>>

\* run_lcmetab_ms1 ends: it raised, or process_ms2 starts and loads metadata.pkl
M_JobMs1(f) ==
    /\ workflow = "metabolomics" /\ pc \in {"pool", "shutdown"}
    /\ stage[f] = "ms1_running"
    /\ IF files[f].bad
       THEN stage' = [stage EXCEPT ![f] = "failed"] /\ UNCHANGED loaded
       ELSE /\ stage' = [stage EXCEPT ![f] = "ms2_running"]
            /\ loaded' = [loaded EXCEPT ![f] = metadata.fe[files[f].polarity]]
    /\ UNCHANGED <<workflow, files, cores, pc, group, seq_i, mz_dicts, metadata,
                   results, dispatch, error, builds, libVars, feVars, rtVars, gcVars, pVars, bVars>>

\* process_ms2 and export_results end; the job returns "Completed: ..."
M_JobExport(f) ==
    /\ workflow = "metabolomics" /\ pc \in {"pool", "shutdown"}
    /\ stage[f] = "ms2_running"
    /\ stage' = [stage EXCEPT ![f] = "exported"]
    /\ UNCHANGED <<workflow, files, cores, pc, group, seq_i, mz_dicts, metadata, loaded,
                   results, dispatch, error, builds, libVars, feVars, rtVars, gcVars, pVars, bVars>>

\* leaving the pool after the first result, the other jobs still running
M_Collect_LeaveEarly ==
    /\ workflow = "metabolomics" /\ pc = "pool"
    /\ stage[seq_i] \in {"exported", "failed"}
    /\ IF stage[seq_i] = "exported"
       THEN /\ results' = Append(results, seq_i)
            /\ GroupEnd /\ UNCHANGED seq_i
            /\ UNCHANGED stage
       ELSE /\ results' = <<>>
            /\ stage' = [i \in Idx |-> IF stage[i] = "queued" THEN "cancelled" ELSE stage[i]]
            /\ pc' = "shutdown"
            /\ UNCHANGED <<seq_i, group>>
    /\ UNCHANGED <<workflow, files, cores, mz_dicts, metadata, loaded, dispatch, error,
                   builds, libVars, feVars, rtVars, gcVars, pVars, bVars>>

\* list(executor.map(...)) takes the result of the next future in submission
\* order.  A result is appended; an exception leaves the iterator, which
\* cancels every future that has not started, and the list is lost.
M_Collect ==
    /\ workflow = "metabolomics" /\ pc = "pool"
    /\ stage[seq_i] \in {"exported", "failed"}
    /\ IF stage[seq_i] = "exported"
       THEN /\ results' = Append(results, seq_i)
            /\ IF NextInGroup(seq_i) # 0
               THEN seq_i' = NextInGroup(seq_i) /\ UNCHANGED <<pc, group>>
               ELSE GroupEnd /\ UNCHANGED seq_i
            /\ UNCHANGED stage
       ELSE /\ results' = <<>>
            /\ stage' = [i \in Idx |-> IF stage[i] = "queued" THEN "cancelled" ELSE stage[i]]
            /\ pc' = "shutdown"
            /\ UNCHANGED <<seq_i, group>>
    /\ UNCHANGED <<workflow, files, cores, mz_dicts, metadata, loaded, dispatch, error,
                   builds, libVars, feVars, rtVars, gcVars, pVars, bVars>>

\* the with block is left on the exception: shutdown(wait=True) waits for the
\* running jobs, then the exception leaves the workflow
M_Shutdown ==
    /\ workflow = "metabolomics" /\ pc = "shutdown"
    /\ \A i \in GroupIdx(group) : stage[i] \notin {"ms1_running", "ms2_running"}
    /\ pc' = "error" /\ error' = "ValueError"
    /\ UNCHANGED <<workflow, files, cores, group, stage, seq_i, mz_dicts, metadata, loaded,
                   results, dispatch, builds, libVars, feVars, rtVars, gcVars, pVars, bVars>>

MetabNext ==
    \/ M_Group
    \/ M_Dispatch
    \/ M_SeqJob
    \/ \E f \in Idx : M_Pick(f)
    \/ \E f \in Idx : M_JobMs1(f)
    \/ \E f \in Idx : M_JobExport(f)
    \/ M_Collect
    \/ M_Shutdown

WfNext == LipidNext \/ MetabNext

SpecWorkflow == WfInit /\ [][WfNext]_vars

SpecDispatch == DispatchInit /\ [][WfNext]_vars

(***************************************************************************)
(* Claims on the workflows, checked under SpecWorkflow                      *)
(***************************************************************************)
Ended == pc \in {"done", "error"}

\* C1: in both workflows and under both dispatch strategies, spectral
\* matching of a file starts only once the reference index of the file's
\* polarity has been built: the index a matching job searches is a built
\* index of that polarity.
C1_MatchAfterIndexBuilt ==
    \A f \in Idx :
        stage[f] \in {"ms2_running", "exported"} =>
            /\ loaded[f].built
            /\ loaded[f].polarity = files[f].polarity

\* the negative group of the metabolomics workflow is matching in the thread
\* pool after the positive group was run
C1_Witness ==
    /\ workflow = "metabolomics"
    /\ group = "negative"
    /\ dispatch.mode = "pool"
    /\ \E f \in Idx : stage[f] = "ms2_running" /\ files[f].polarity = "negative"
    /\ \E f \in Idx : stage[f] = "exported" /\ files[f].polarity = "positive"

\* C2: when one job of K jobs dispatched to N > 1 workers fails, the other
\* K-1 jobs run to completion and the batch result holds K entries, also
\* when K > N.
C2_SiblingJobsComplete ==
    (/\ workflow = "metabolomics"
     /\ Ended
     /\ dispatch.mode = "pool"
     /\ Cardinality({ j \in GroupIdx(group) : files[j].bad }) = 1
     /\ \E j \in GroupIdx(group) : stage[j] = "failed") =>
        /\ \A f \in GroupIdx(group) : ~files[f].bad => stage[f] = "exported"
        /\ Len(results) + 1 = Cardinality(GroupIdx(group))

\* C3: a file whose phase-1 job fails is left out of phase 2 while every
\* other file completes phase 1, the library build and phase 2; the batch
\* is not aborted.
C3_Phase1FailureFileScoped ==
    (workflow = "lipidomics" /\ Ended /\ \E j \in Idx : stage[j] = "ms1_failed") =>
        \A f \in Idx : stage[f] # "ms1_failed" => stage[f] = "exported"

\* C4: the query masses handed to the library builder for a polarity are
\* the deduplicated union of the phase-1 lists of all files of that polarity.
C4_QuerySetIsUnionOverFiles ==
    workflow = "lipidomics" =>
        \A p \in Polarities :
            metadata.calls[p].status \notin {"none", "skipped"} =>
                /\ IsDistinct(metadata.mzs[p].val)
                /\ SeqToSet(metadata.mzs[p].val)
                     = UNION { SeqToSet(files[i].mzs) : i \in GroupIdx(p) }

\* C9: when no reference entry passes the ppm filter for a polarity, the
\* library build and prep_metadata complete without error and give an
\* empty index, and phase 2 runs for the files of that polarity.
C9_NoRetainedStillSearchable ==
    (/\ workflow = "lipidomics"
     /\ \A p \in Polarities : metadata.calls[p].status \in {"ok", "skipped"}
     /\ \E p \in Polarities : metadata.calls[p].status = "ok") =>
        \A p \in Polarities :
            (metadata.calls[p].status = "ok" /\ metadata.calls[p].mz_subset = {}) =>
                /\ metadata.status = "ok"
                /\ metadata.fe[p].built /\ metadata.fe[p].spectra = {}
                /\ pc # "error"

\* C10: a job list is run sequentially when the worker count is 1 or there
\* is one job, and otherwise with exactly N parallel workers; the
\* metabolomics workflow counts the jobs of the polarity group dispatched.
C10_DispatchRule ==
    dispatch # NoDispatch =>
        /\ IF cores = 1 \/ dispatch.jobs = 1
           THEN dispatch.mode = "sequential"
           ELSE dispatch.mode = "pool" /\ dispatch.workers = cores
        /\ (workflow = "metabolomics" /\ pc \in {"seq", "pool"}) =>
              dispatch.jobs = Cardinality(GroupIdx(group))

(***************************************************************************)
(* SpecRouting: one sequential run of the metabolomics workflow in detail:  *)
(* the pre-flight checks, the validation of the scan translator against    *)
(* each file and the routing of its ms2 scans to fe_search                  *)
(***************************************************************************)
MaxScans == 2          \* most scans of a file
MaxBatch == 2          \* most files of a detailed run

\* scan_filter "" is replaced by None when the table is loaded
NoFilter == "None"

\* the substrings of scan_text that the filters of a table look for
FilterTokens == {"hcd", "cid"}

KeyNames == {"ms2", "ms2_lr"}

\* the keys of myLCMSobj.parameters.mass_spectrum
ParamKeys == {"ms1", "ms2", "ms2_lr"}

TableEntries == [key : KeyNames, scan_filter : FilterTokens \cup {""}, resolution : Tiers]

\* a toml table: its keys in file order, no key twice
ScanTranslatorTables ==
    { t \in SeqsUpTo(TableEntries, 2) :
        Len(t) >= 1 /\ \A i, j \in 1..Len(t) : i # j => t[i].key # t[j].key }

\* a scan: its ms level, the filter substrings its scan_text contains, and
\* whether its spectrum is loaded in myLCMSobj._ms
ScanRows == { r \in [ms_level : {1, 2}, text : SUBSET FilterTokens, in_ms : BOOLEAN] :
                r.ms_level = 1 => r.in_ms }

ScanFrames == UNION { [1..n -> ScanRows] : n \in 0..MaxScans }

Paths == {"corems_toml_path", "scan_translator_path", "output_directory",
          "file_paths", "msp_file_path"}

\* load_scan_translator: the default table when none is given, "" -> None
load_scan_translator(st) ==
    LET t == IF st.supplied THEN st.keys
             ELSE <<[key |-> "ms2", scan_filter |-> "", resolution |-> "high"]>>
    IN  [i \in 1..Len(t) |->
            [t[i] EXCEPT !.scan_filter = IF @ = "" THEN NoFilter ELSE @]]

\* scan_df.scan_text.str.contains(scan_filter): the scans selected
str_contains(df, scan_filter) ==
    { i \in 1..Len(df) : scan_filter \in df[i].text }

\* never reporting an overlap
overlapping_Never(pulled) == FALSE

\* len(set(scans_pulled_out)) != len(scans_pulled_out)
overlapping(pulled) == Cardinality(SeqToSet(pulled)) # Len(pulled)

\* scan_df_sub.scan.tolist(): the scan numbers of the selected rows in file order
scan_tolist(S) ==
    [k \in 1..Cardinality(S) |-> CHOOSE x \in S : Cardinality({ y \in S : y < x }) = k - 1]

\* the loop of check_scan_translator from entry i on; pulled is
\* scans_pulled_out as a sequence of scan numbers
RECURSIVE check_keys(_, _, _, _)
check_keys(df, t, i, pulled) ==
    IF i > Len(t)
    THEN IF overlapping(pulled)
         THEN [err |-> "ValueError", msg |-> "Overlapping scans", key |-> "none"]
         ELSE [err |-> "none", msg |-> "none", key |-> "none"]
    ELSE IF t[i].key \notin ParamKeys
    THEN [err |-> "AssertionError", msg |-> "none", key |-> "none"]
    ELSE IF t[i].scan_filter = NoFilter
    THEN \* str.contains(None) compiles None as a pattern
         [err |-> "TypeError", msg |-> "none", key |-> "none"]
    ELSE LET sub == str_contains(df, t[i].scan_filter)
         IN  IF sub = {}
             THEN [err |-> "ValueError", msg |-> "No scans pulled out", key |-> t[i].key]
             ELSE check_keys(df, t, i + 1,
                             pulled \o scan_tolist(sub))

check_scan_translator(df, st) == check_keys(df, load_scan_translator(st), 1, <<>>)

\* every ms2 scan with a loaded spectrum, whatever the key's filter
bucket_of_key_AllScans(df, entry) ==
    scan_tolist({ i \in 1..Len(df) : df[i].ms_level = 2 /\ df[i].in_ms })

\* the scans process_ms2 collects for one key: ms2_scans_oi_hr_i / ms2_scans_oi_lri
bucket_of_key(df, entry) ==
    scan_tolist({ i \in 1..Len(df) :
               /\ df[i].ms_level = 2
               /\ entry.scan_filter # NoFilter => entry.scan_filter \in df[i].text
               /\ df[i].in_ms })

\* the loop over the keys from entry i on, extending the list of the tier
RECURSIVE bucket_from(_, _, _, _)
bucket_from(df, t, tier, i) ==
    IF i > Len(t) THEN <<>>
    ELSE (IF t[i].resolution = tier THEN bucket_of_key(df, t[i]) ELSE <<>>)
         \o bucket_from(df, t, tier, i + 1)

\* ms2_scans_oi_hr / ms2_scans_oi_lr: a list, a scan once for every key that selects it
bucket(df, t, tier) == bucket_from(df, t, tier, 1)

\* never generating the low-resolution index
low_resolution_requested_Never(t) == FALSE

\* if all(x["resolution"] == "high" ...): generate_lr_metadata = False, else True
low_resolution_requested(t) == ~ \A i \in 1..Len(t) : t[i].resolution = "high"

\* calling fe_search also for an empty bucket
process_ms2_Unguarded(df, pol, md, st) ==
    LET t == load_scan_translator(st)
    IN  <<[tier |-> "high", scan_list |-> bucket(df, t, "high"), fe_lib |-> md.fe[pol]],
          [tier |-> "low", scan_list |-> bucket(df, t, "low"), fe_lib |-> md.fe_lr[pol]]>>

\* process_ms2 on a file of polarity pol with the metadata loaded from
\* metadata.pkl: the fe_search calls it makes, in order
process_ms2(df, pol, md, st) ==
    LET t == load_scan_translator(st)
        hr == bucket(df, t, "high")
        lr == bucket(df, t, "low")
    IN  (IF Len(hr) > 0
         THEN <<[tier |-> "high", scan_list |-> hr, fe_lib |-> md.fe[pol]]>> ELSE <<>>)
        \o (IF Len(lr) > 0
            THEN <<[tier |-> "low", scan_list |-> lr, fe_lib |-> md.fe_lr[pol]]>> ELSE <<>>)

\* check_lcmetab_workflow_params: the first check that fails, "none" if none
check_lcmetab_workflow_params(paths, st) ==
    IF "corems_toml_path" \notin paths THEN "FileNotFoundError"
    ELSE IF ~st.supplied THEN "TypeError"      \* Path(None)
    ELSE IF "scan_translator_path" \notin paths THEN "FileNotFoundError"
    ELSE IF "output_directory" \notin paths THEN "FileNotFoundError"
    ELSE IF "file_paths" \notin paths THEN "FileNotFoundError"
    ELSE IF "msp_file_path" \notin paths THEN "FileNotFoundError"
    ELSE "none"

RtInit ==
    /\ PIdle
    /\ BIdle
    /\ LibIdle
    /\ FEIdle
    /\ WfIdle
    /\ GcIdle
    /\ rt_pc = "mkdir"
    /\ fs \in SUBSET Paths
    /\ scan_translator \in {NoTable} \cup
          { [supplied |-> TRUE, keys |-> t] : t \in ScanTranslatorTables }
    /\ rt_n \in 1..MaxBatch
    /\ rt_i = 0
    /\ scan_df = <<>>
    /\ rt_status = [i \in 1..rt_n |-> "pending"]
    /\ fe_calls = [i \in 1..rt_n |-> <<>>]
    /\ rt_error = "none"
    /\ rt_polarity \in Polarities
    /\ rt_metadata = NoMetadata

\* out_dir.mkdir(parents=True, exist_ok=True), lines 462-463
RtMkdir ==
    /\ rt_pc = "mkdir"
    /\ fs' = fs \cup {"output_directory"}
    /\ rt_pc' = "check_params"
    /\ UNCHANGED <<scan_translator, rt_n, rt_i, scan_df, rt_status, fe_calls, rt_error,
                   rt_polarity, rt_metadata, libVars, feVars, wfVars, gcVars, pVars, bVars>>

\* check_lcmetab_workflow_params(lcmetab_workflow_params), line 466
RtCheckParams ==
    /\ rt_pc = "check_params"
    /\ LET e == check_lcmetab_workflow_params(fs, scan_translator)
       IN  IF e = "none"
           THEN rt_pc' = "prepare" /\ UNCHANGED rt_error
           ELSE rt_pc' = "error" /\ rt_error' = e
    /\ UNCHANGED <<fs, scan_translator, rt_n, rt_i, scan_df, rt_status, fe_calls,
                   rt_polarity, rt_metadata, libVars, feVars, wfVars, gcVars, pVars, bVars>>

\* lines 480-504: generate_lr_metadata is decided from the table and
\* prepare_metadata writes metadata.pkl for the polarity of the files
RtPrepareMetadata ==
    /\ rt_pc = "prepare"
    /\ rt_metadata' = prepare_metadata(
                          low_resolution_requested(load_scan_translator(scan_translator)),
                          rt_polarity)
    /\ rt_pc' = "open"
    /\ rt_i' = 1
    /\ UNCHANGED <<fs, scan_translator, rt_n, scan_df, rt_status, fe_calls, rt_error,
                   rt_polarity, libVars, feVars, wfVars, gcVars, pVars, bVars>>

\* run_lcmetab_ms1: instantiate_lcms_obj reads the scans of the next file
RtOpen ==
    /\ rt_pc = "open"
    /\ scan_df' \in ScanFrames
    /\ rt_pc' = "check_translator"
    /\ UNCHANGED <<fs, scan_translator, rt_n, rt_i, rt_status, fe_calls, rt_error,
                   rt_polarity, rt_metadata, libVars, feVars, wfVars, gcVars, pVars, bVars>>

\* check_scan_translator(myLCMSobj, scan_translator) in run_lcmetab_ms1; its
\* exception is re-raised by process_complete_workflow and leaves the loop
RtCheckTranslator ==
    /\ rt_pc = "check_translator"
    /\ LET out == check_scan_translator(scan_df, scan_translator)
       IN  IF out.err = "none"
           THEN rt_pc' = "process_ms2" /\ UNCHANGED <<rt_status, rt_error>>
           ELSE /\ rt_pc' = "error" /\ rt_error' = out.err
                /\ rt_status' = [rt_status EXCEPT ![rt_i] = "failed"]
    /\ UNCHANGED <<fs, scan_translator, rt_n, rt_i, scan_df, fe_calls,
                   rt_polarity, rt_metadata, libVars, feVars, wfVars, gcVars, pVars, bVars>>

\* process_ms2 and export_results of the file; then the next file
RtProcessMs2 ==
    /\ rt_pc = "process_ms2"
    /\ fe_calls' = [fe_calls EXCEPT ![rt_i] =
                        process_ms2(scan_df, rt_polarity, rt_metadata, scan_translator)]
    /\ rt_status' = [rt_status EXCEPT ![rt_i] = "exported"]
    /\ IF rt_i < rt_n
       THEN rt_i' = rt_i + 1 /\ rt_pc' = "open"
       ELSE rt_pc' = "done" /\ UNCHANGED rt_i
    /\ UNCHANGED <<fs, scan_translator, rt_n, scan_df, rt_error,
                   rt_polarity, rt_metadata, libVars, feVars, wfVars, gcVars, pVars, bVars>>

RtNext ==
    \/ RtMkdir
    \/ RtCheckParams
    \/ RtPrepareMetadata
    \/ RtOpen
    \/ RtCheckTranslator
    \/ RtProcessMs2

SpecRouting == RtInit /\ [][RtNext]_vars

(***************************************************************************)
(* SpecGcms: the pool loop of run_nmdc_metabolomics_workflow                *)
(* (gcmsWorkflow.py): workflow_worker over the files through                *)
(* Pool(jobs).imap_unordered, each result exported as it arrives            *)
(***************************************************************************)
GcIdx == 1..Len(file_paths)

GcInit ==
    /\ PIdle
    /\ BIdle
    /\ LibIdle
    /\ FEIdle
    /\ WfIdle
    /\ RtIdle
    /\ gc_pc = "pool"
    /\ \E n \in 1..MaxFiles : file_paths \in [1..n -> [bad : BOOLEAN]]
    /\ jobs \in 1..MaxCores
    /\ gc_stage = [i \in 1..Len(file_paths) |-> "queued"]
    /\ gc_ready = <<>>
    /\ gc_i = 0
    /\ gc_written = {}

\* a process of Pool(jobs) takes the next task of worker_args
GcPick(f) ==
    /\ gc_pc = "pool"
    /\ gc_stage[f] = "queued"
    /\ \A g \in GcIdx : gc_stage[g] = "queued" => f <= g
    /\ Cardinality({ g \in GcIdx : gc_stage[g] = "running" }) < jobs
    /\ gc_stage' = [gc_stage EXCEPT ![f] = "running"]
    /\ UNCHANGED <<gc_pc, file_paths, jobs, gc_ready, gc_i, gc_written,
                   libVars, feVars, wfVars, rtVars, pVars, bVars>>

\* workflow_worker ends: its gcms object, or its exception, is queued for
\* the coordinator in the order of completion
GcFinish(f) ==
    /\ gc_pc = "pool"
    /\ gc_stage[f] = "running"
    /\ gc_stage' = [gc_stage EXCEPT ![f] = "finished"]
    /\ gc_ready' = Append(gc_ready, f)
    /\ UNCHANGED <<gc_pc, file_paths, jobs, gc_i, gc_written,
                   libVars, feVars, wfVars, rtVars, pVars, bVars>>

\* the file whose path the coordinator exports the i-th result to:
\* input_path = Path(workflow_params.file_paths[i])
output_path_of(i, result_file) == i + 1

\* one turn of "for i, gcms in enumerate(pool.imap_unordered(...))": the
\* next result is exported, or the worker's exception is raised again and
\* the with block terminates the pool
GcWrite ==
    /\ gc_pc = "pool"
    /\ gc_ready # <<>>
    /\ LET k == Head(gc_ready)
       IN  IF file_paths[k].bad
           THEN /\ gc_pc' = "error"
                /\ UNCHANGED <<gc_i, gc_written>>
           ELSE /\ gc_written' = gc_written \cup
                                   {[path |-> output_path_of(gc_i, k), result |-> k]}
                /\ gc_i' = gc_i + 1
                /\ gc_pc' = IF gc_i + 1 = Len(file_paths) THEN "done" ELSE gc_pc
    /\ gc_ready' = Tail(gc_ready)
    /\ UNCHANGED <<file_paths, jobs, gc_stage, libVars, feVars, wfVars, rtVars, pVars, bVars>>

GcNext ==
    \/ \E f \in GcIdx : GcPick(f)
    \/ \E f \in GcIdx : GcFinish(f)
    \/ GcWrite

SpecGcms == GcInit /\ [][GcNext]_vars

\* C18: results collected from parallel workers are associated with their
\* file by identity, never by completion position: for every completion
\* order each result is written to the output path derived from the input
\* file that produced it.
C18_ResultWrittenToOwnPath ==
    \A w \in gc_written : w.path = w.result

(***************************************************************************)
(* Claims on the life of the reference index                                *)
(***************************************************************************)
\* phase 1 (feature extraction) of a file has ended
Phase1Ended(f) ==
    stage[f] \in {"ms1_done", "ms1_failed", "failed", "ms2_queued", "ms2_running", "exported"}

\* phase 2 (spectral matching) of a file has started
Phase2Started(f) == stage[f] \in {"ms2_running", "exported"}

\* the index a file searched is one of the file's polarity, searched in phase 2
ConsumedInPhase2OfGroup ==
    \A f \in Idx :
        loaded[f] # NoIndex => (Phase2Started(f) /\ loaded[f].polarity = files[f].polarity)

C16_IndexBuiltOncePerPolarityAndTier ==
    \A p \in Polarities : \A t \in Tiers :
        /\ builds[p][t] <= 1
        /\ (t = "high" /\ \E f \in GroupIdx(p) : Phase2Started(f)) => builds[p][t] = 1

\* C17: if building the reference index of a polarity fails, no file of
\* that polarity runs spectral matching or writes a final export in the run.
C17_BuildFailureStopsPolarity ==
    /\ workflow = "lipidomics" =>
          \A p \in Polarities :
              (Raised(metadata.calls[p]) \/ (metadata.calls[p].status = "ok" /\ metadata.status # "ok")) =>
                  \A f \in GroupIdx(p) : ~Phase2Started(f) /\ stage[f] # "ms2_queued"
    /\ (workflow = "metabolomics" /\ error = "MSPError") =>
          \A f \in GroupIdx(group) : stage[f] = "pending"

\* a lipidomics run of files of both polarities has ended on the failure of
\* the positive library, the negative one having been built
C17_Witness ==
    /\ workflow = "lipidomics" /\ pc = "error"
    /\ metadata.calls["negative"].status = "ok"
    /\ Raised(metadata.calls["positive"])
    /\ GroupIdx("positive") # {} /\ GroupIdx("negative") # {}

(***************************************************************************)
(* Claims on routing and pre-flight, checked under SpecRouting              *)
(***************************************************************************)
\* the scans of a file a key's filter selects; no filter selects every scan
SelectedBy(df, entry) ==
    IF entry.scan_filter = NoFilter THEN 1..Len(df)
    ELSE { i \in 1..Len(df) : entry.scan_filter \in df[i].text }

\* two distinct keys of the table select a common scan of the file
KeysOverlap(df, t) ==
    \E i, j \in 1..Len(t) :
        i # j /\ SelectedBy(df, t[i]) \cap SelectedBy(df, t[j]) # {}

\* check_scan_translator has just ended for file rt_i, normally or not
TranslatorChecked ==
    /\ rt_i >= 1
    /\ \/ rt_pc = "process_ms2"
       \/ rt_pc = "error" /\ rt_status[rt_i] = "failed"

\* C12: if two distinct keys' filters select a common scan of the file,
\* check_scan_translator rejects the file with an error; whenever it
\* returns normally the per-key selected scan sets are pairwise disjoint.
C12_OverlapRejected ==
    TranslatorChecked =>
        LET t == load_scan_translator(scan_translator)
        IN  /\ KeysOverlap(scan_df, t) => (rt_pc = "error" /\ rt_error # "none")
            /\ rt_pc = "process_ms2" =>
                  \A i, j \in 1..Len(t) :
                      i # j => SelectedBy(scan_df, t[i]) \cap SelectedBy(scan_df, t[j]) = {}

\* a file is rejected for overlapping keys, each of which selects scans
C12_Witness ==
    /\ TranslatorChecked
    /\ rt_pc = "error" /\ rt_error = "ValueError"
    /\ LET t == load_scan_translator(scan_translator)
       IN  /\ KeysOverlap(scan_df, t)
           /\ \A i \in 1..Len(t) : SelectedBy(scan_df, t[i]) # {}

\* C13: if a key's filter matches zero scans of a file, check_scan_translator
\* raises an error naming that key, and the error affects that file only:
\* the other files of the batch are still processed.
C13_ZeroMatchFileScoped ==
    LET out == check_scan_translator(scan_df, scan_translator)
    IN  (/\ rt_pc = "error" /\ rt_i >= 1 /\ rt_status[rt_i] = "failed"
         /\ out.msg = "No scans pulled out") =>
            /\ \E i \in 1..Len(scan_translator.keys) :
                  /\ scan_translator.keys[i].key = out.key
                  /\ SelectedBy(scan_df, load_scan_translator(scan_translator)[i]) = {}
            /\ \A j \in 1..rt_n : j # rt_i => rt_status[j] = "exported"

\* the paths every run needs, the scan translator aside
RequiredPaths == {"corems_toml_path", "file_paths", "msp_file_path"}

\* the ms2 scans of a file with a loaded spectrum
TandemScans(df) == { i \in 1..Len(df) : df[i].ms_level = 2 /\ df[i].in_ms }

\* the file whose process_ms2 ended last
LastProcessed == IF rt_pc = "open" THEN rt_i - 1 ELSE rt_i

\* C14: with no scan-routing table supplied the workflow uses the default
\* table (one key, match-all, high): the run passes pre-flight, a file with
\* at least one scan passes the validation, and every tandem-MS scan goes
\* to the high-resolution bucket and none to the low-resolution bucket.
C14_DefaultTableRoutesAllHigh ==
    (~scan_translator.supplied /\ RequiredPaths \subseteq fs) =>
        /\ rt_pc # "error"
        /\ (rt_pc \in {"open", "done"} /\ LastProcessed >= 1) =>
              LET calls == fe_calls[LastProcessed]
              IN  IF TandemScans(scan_df) = {} THEN calls = <<>>
                  ELSE /\ Len(calls) = 1
                       /\ calls[1].tier = "high"
                       /\ IsDistinct(calls[1].scan_list)
                       /\ SeqToSet(calls[1].scan_list) = TandemScans(scan_df)

\* the scans of a file routed to a resolution tier: the ms2 scans with a
\* loaded spectrum that some key of the tier selects
RoutedScans(df, t, tier) ==
    { x \in TandemScans(df) :
        \E i \in 1..Len(t) : t[i].resolution = tier /\ x \in SelectedBy(df, t[i]) }

\* C19: process_ms2 calls fe_search exactly once for each non-empty routed
\* scan bucket (high, low) and never for an empty bucket: at most two calls
\* per file and none when both buckets are empty.
C19_OneSearchPerNonEmptyBucket ==
    (rt_pc \in {"open", "done"} /\ LastProcessed >= 1) =>
        LET calls == fe_calls[LastProcessed]
            t == load_scan_translator(scan_translator)
        IN  /\ Len(calls) <= 2
            /\ \A k \in 1..Len(calls) : calls[k].scan_list # <<>>
            /\ \A tier \in Tiers :
                  Cardinality({ k \in 1..Len(calls) : calls[k].tier = tier })
                    = IF RoutedScans(scan_df, t, tier) # {} THEN 1 ELSE 0

\* a run of two files: the first is searched in both tiers, the second in none
C19_Witness ==
    /\ rt_pc = "done" /\ rt_n = 2
    /\ Len(fe_calls[1]) = 2
    /\ fe_calls[2] = <<>>
    /\ rt_status[2] = "exported"

\* C20: a run whose output directory does not exist ends with a pre-flight
\* error before any file is parsed and leaves the filesystem unchanged:
\* every step taken while the directory is missing raises and changes no path.
C20_MissingOutputDirIsFatal ==
    [][ (rt_pc \notin {"idle", "error"} /\ "output_directory" \notin fs) =>
            (fs' = fs /\ rt_pc' = "error") ]_vars

(***************************************************************************)
(* Claims on the dispatch over file formats, checked under SpecDispatch     *)
(***************************************************************************)
\* a worker is inside instantiate_lcms_obj / run_lipid_sp_ms1 / run_lcmetab_ms1
Parsing(f) == stage[f] = "ms1_running"

\* C11: when the input files are .raw files, the jobs run sequentially in
\* the caller even with a worker count above 1 and more than one file, and
\* no two .raw files are ever parsed by concurrent workers.
C11_RawFilesRunSequentially ==
    /\ (/\ cores > 1
        /\ dispatch # NoDispatch
        /\ \A f \in Idx : files[f].format = "raw") => dispatch.mode = "sequential"
    /\ \A f, g \in Idx :
          (f # g /\ files[f].format = "raw" /\ files[g].format = "raw") =>
              ~(Parsing(f) /\ Parsing(g))

(***************************************************************************)
(* Claims on the library queries, checked under SpecLib                     *)
(***************************************************************************)
\* the entries of the requested polarity that pass the ppm filter
RetainedEntries == { e \in catalog : e.polarity = polarity /\ WithinTolOfSomeQuery(e) }

\* C29: get_lipid_library completes for every number n >= 1 of reference
\* entries that pass the ppm filter, also for n = 1: the id lists of its
\* follow-up catalog queries are well-formed for every n.
C29_LibraryCompletesForEveryCount ==
    (lib_pc = "returned" /\ Cardinality(RetainedEntries) >= 1) =>
        /\ lib_out.status = "ok"
        /\ lib_out.fe_lib = { e.id : e \in RetainedEntries }

(***************************************************************************)
(* Claims on the accounting of files, checked under SpecWorkflow            *)
(***************************************************************************)
\* C22: every run ends with each input file accounted for exactly once, as
\* completed or as skipped with a reason; no input file, in particular one
\* whose polarity is neither positive nor negative, is dropped without being
\* processed or reported.  Stated for the runs that end normally.
C22_EveryFileAccountedFor ==
    (workflow = "metabolomics" /\ pc = "done") =>
        \A f \in Idx : stage[f] \in {"exported", "failed", "cancelled"}

\* C26: for every requested worker count, 0 included, and every non-empty
\* polarity group, the workflow dispatches a job for each file of the group
\* or ends with an error; it is never complete with files of a non-empty
\* group not dispatched.
C26_CompleteOnlyAfterDispatch ==
    pc = "done" =>
        \A p \in Polarities : \A f \in GroupIdx(p) : stage[f] # "pending"

(***************************************************************************)
(* Claims on metadata.pkl, checked under SpecWorkflow                       *)
(***************************************************************************)
\* a job of the thread pool that is waiting for a thread or running
JobInFlight(f) == stage[f] \in {"queued", "ms1_running", "ms2_running"}

\* C23: in run_lcms_metabolomics_workflow every process_ms2 call for a file
\* of polarity p loads a metadata.pkl whose fe[p] is the index built for p
\* in this run, and the negative-polarity prepare_metadata never overwrites
\* metadata.pkl while a positive-polarity job is pending or running, for
\* every worker count and interleaving.
C23_MetadataFileNotOverwrittenEarly ==
    workflow = "metabolomics" =>
        /\ \A f \in Idx : Phase2Started(f) => loaded[f] = MspIndex(files[f].polarity)
        /\ metadata.fe["negative"].built =>
              \A f \in GroupIdx("positive") : ~JobInFlight(f)

\* metadata.pkl holds the negative index, a negative job of the thread pool
\* has loaded it, and a positive file was exported before with its own index
C23_Witness ==
    /\ workflow = "metabolomics" /\ dispatch.mode = "pool" /\ group = "negative"
    /\ metadata.fe["negative"].built /\ ~metadata.fe["positive"].built
    /\ \E f \in GroupIdx("negative") :
          stage[f] = "ms2_running" /\ loaded[f] = MspIndex("negative")
    /\ \E f \in GroupIdx("positive") :
          stage[f] = "exported" /\ loaded[f] = MspIndex("positive")

(***************************************************************************)
(* The sequential lipidomics run as a function of its inputs, and the       *)
(* claim that the pool run agrees with it (SpecWorkflow)                    *)
(***************************************************************************)
\* the loop of lines 535-542 from file i on, no job failing: mz_dicts
RECURSIVE sequential_mz_dicts(_, _)
sequential_mz_dicts(i, acc) ==
    IF i > N THEN acc
    ELSE sequential_mz_dicts(i + 1, Append(acc, [polarity |-> files[i].polarity,
                                                 mzs |-> files[i].mzs]))

\* what run_lcms_lipidomics_workflow with cores == 1 produces on the files:
\* the metadata, and for each file exported the index it searched
sequential_run ==
    LET md == prep_metadata(sequential_mz_dicts(1, <<>>), ReferenceCatalog)
    IN  [metadata |-> md,
         exports |-> IF md.status = "ok" THEN Idx ELSE {},
         searched |-> [f \in Idx |-> md.fe[files[f].polarity]]]

FileProcessed == rt_pc \in {"open", "done"} /\ LastProcessed >= 1

\* how often scan x was passed to fe_search in the calls made for a file
TimesSearched(calls, x) ==
    Cardinality({ c \in { <<k, j>> : k \in 1..Len(calls), j \in 1..MaxScans } :
                    c[2] <= Len(calls[c[1]].scan_list) /\ calls[c[1]].scan_list[c[2]] = x })

C25_LowResolutionIndexWhenNeeded ==
    LET t == load_scan_translator(scan_translator)
    IN  /\ (\E p \in Polarities : rt_metadata.fe_lr[p].built) =>
              \E i \in 1..Len(t) : t[i].resolution # "high"
        /\ \A f \in 1..rt_n : \A k \in 1..Len(fe_calls[f]) :
              fe_calls[f][k].tier = "low" => fe_calls[f][k].fe_lib = MspIndex(rt_polarity)

\* a file of negative polarity had its low-resolution scans searched
C25_Witness ==
    /\ rt_polarity = "negative"
    /\ \E f \in 1..rt_n : \E k \in 1..Len(fe_calls[f]) :
          /\ fe_calls[f][k].tier = "low"
          /\ fe_calls[f][k].scan_list # <<>>
          /\ fe_calls[f][k].fe_lib.built

(***************************************************************************)
(* SpecPaths: what a run makes of its input paths: the extension check of   *)
(* the pre-flight, the parser instantiate_lcms_obj selects, and the output  *)
(* path each file is exported to.  The two workflows share this code.       *)
(***************************************************************************)
MaxPaths == 2          \* most input paths of a run followed through its paths

\* A path is a directory and a file name; the name is a base followed by
\* dotted parts, "a.raw.gz" being <<"a", ".raw", ".gz">>.
Dirs == {"d1", "d2"}

Bases == {"a", "b"}

DotParts == {".raw", ".mzML", ".gz"}

FileNames ==
    { nm \in SeqsUpTo(Bases \cup DotParts, 3) :
        /\ Len(nm) >= 1
        /\ nm[1] \in Bases
        /\ \A i \in 2..Len(nm) : nm[i] \in DotParts }

InputPaths == [dir : Dirs, name : FileNames]

\* the extensions the workflows read
RecognizedExtensions == {".raw", ".mzML"}

\* part in str(path): the part occurs somewhere in the path
contains(path, part) == \E i \in 1..Len(path.name) : path.name[i] = part

\* Path.suffix: the last dotted part of the name, "" if none
suffix(path) ==
    IF Len(path.name) >= 2 THEN path.name[Len(path.name)] ELSE ""

\* Path.stem: the name without its suffix
stem(path) ==
    IF Len(path.name) >= 2 THEN SubSeq(path.name, 1, Len(path.name) - 1) ELSE path.name

\* if ".raw" not in file_path and ".mzML" not in file_path: raise ValueError
extension_error(path) ==
    IF ~contains(path, ".raw") /\ ~contains(path, ".mzML") THEN "ValueError" ELSE "none"

\* the loop of the pre-flight over file_paths: the first error, "none" if none
check_file_extensions(paths) ==
    IF \E i \in 1..Len(paths) : extension_error(paths[i]) # "none"
    THEN "ValueError"
    ELSE "none"

\* instantiate_lcms_obj: the parser the two ifs leave bound; with neither
\* taken the name parser is unbound at the call that follows
instantiate_lcms_obj(path) ==
    IF contains(path, ".mzML") THEN "MZMLSpectraParser"
    ELSE IF contains(path, ".raw") THEN "ImportMassSpectraThermoMSFileReader"
    ELSE "UnboundLocalError"

OutDir == "output_directory"

\* out_dir / f.stem
out_path(path) == [dir |-> OutDir, name |-> stem(path)]

PathsInit ==
    /\ LibIdle
    /\ FEIdle
    /\ WfIdle
    /\ RtIdle
    /\ GcIdle
    /\ BIdle
    /\ p_pc = "check_params"
    /\ \E n \in 1..MaxPaths : p_paths \in [1..n -> InputPaths]
    /\ p_i = 0
    /\ p_parsers = [i \in 1..Len(p_paths) |-> "none"]
    /\ p_out = <<>>
    /\ p_written = {}
    /\ p_error = "none"

\* the extension loop of check_lcmetab_workflow_params /
\* check_lipidomics_workflow_params
PCheckParams ==
    /\ p_pc = "check_params"
    /\ LET e == check_file_extensions(p_paths)
       IN  IF e = "none"
           THEN p_pc' = "organize" /\ UNCHANGED p_error
           ELSE p_pc' = "error" /\ p_error' = e
    /\ UNCHANGED <<p_paths, p_i, p_parsers, p_out, p_written,
                   libVars, feVars, wfVars, rtVars, gcVars, bVars>>

\* out_paths_list = [out_dir / f.stem for f in files_list]
POrganize ==
    /\ p_pc = "organize"
    /\ p_out' = [i \in 1..Len(p_paths) |-> out_path(p_paths[i])]
    /\ p_i' = 1
    /\ p_pc' = "parse"
    /\ UNCHANGED <<p_paths, p_parsers, p_written, p_error,
                   libVars, feVars, wfVars, rtVars, gcVars, bVars>>

\* the job of file p_i opens it: instantiate_lcms_obj(file_in)
PInstantiate ==
    /\ p_pc = "parse"
    /\ LET parser == instantiate_lcms_obj(p_paths[p_i])
       IN  IF parser = "UnboundLocalError"
           THEN p_pc' = "error" /\ p_error' = parser /\ UNCHANGED p_parsers
           ELSE /\ p_parsers' = [p_parsers EXCEPT ![p_i] = parser]
                /\ p_pc' = "export"
                /\ UNCHANGED p_error
    /\ UNCHANGED <<p_paths, p_i, p_out, p_written,
                   libVars, feVars, wfVars, rtVars, gcVars, bVars>>

\* the job exports to its output path; then the next file
PExport ==
    /\ p_pc = "export"
    /\ p_written' = p_written \cup {[path |-> p_out[p_i], file |-> p_i]}
    /\ IF p_i < Len(p_paths)
       THEN p_i' = p_i + 1 /\ p_pc' = "parse"
       ELSE p_pc' = "done" /\ UNCHANGED p_i
    /\ UNCHANGED <<p_paths, p_parsers, p_out, p_error,
                   libVars, feVars, wfVars, rtVars, gcVars, bVars>>

PathsNext ==
    \/ PCheckParams
    \/ POrganize
    \/ PInstantiate
    \/ PExport

SpecPaths == PathsInit /\ [][PathsNext]_vars

\* C21: every input file whose extension is not .raw or .mzML is rejected by
\* the pre-flight check before any file is parsed; every path that passes
\* the check has a recognized extension and is given a parser by
\* instantiate_lcms_obj.
C21_UnrecognizedExtensionRejected ==
    /\ (p_pc # "idle" /\ \E i \in 1..Len(p_paths) :
                            suffix(p_paths[i]) \notin RecognizedExtensions) =>
          /\ p_pc \in {"check_params", "error"}
          /\ \A i \in 1..Len(p_paths) : p_parsers[i] = "none"
    /\ p_pc \in {"organize", "parse", "export", "done"} =>
          \A i \in 1..Len(p_paths) :
              /\ suffix(p_paths[i]) \in RecognizedExtensions
              /\ instantiate_lcms_obj(p_paths[i]) # "UnboundLocalError"

\* C27: distinct input files of one run are always assigned distinct output
\* paths, so no two jobs write the same artifact or final export, also for
\* two inputs with the same stem in different directories or with different
\* extensions.
C27_DistinctFilesDistinctOutputs ==
    /\ p_out # <<>> =>
          \A i, j \in 1..Len(p_paths) : p_paths[i] # p_paths[j] => p_out[i] # p_out[j]
    /\ \A v, w \in p_written :
          (v.path = w.path /\ v.file # w.file) => p_paths[v.file] = p_paths[w.file]

(***************************************************************************)
(* SpecBatch: the batch script (batch_lcms_metab.py) over its re-runs:      *)
(* check_already_processed splits the files found, the workflow runs on     *)
(* the files to process and leaves its exports in the output directory      *)
(***************************************************************************)
MaxRuns == 2           \* most runs of the batch script on one directory

StagingDir == "input_directory"

\* the files the staging directory may hold, in the order of sorted(files)
StagingFiles ==
    << [dir |-> StagingDir, name |-> <<"a", ".mzML">>],
       [dir |-> StagingDir, name |-> <<"a", ".raw">>],
       [dir |-> StagingDir, name |-> <<"b", ".mzML">>],
       [dir |-> StagingDir, name |-> <<"b", ".raw">>] >>

Stems == { stem(StagingFiles[i]) : i \in 1..Len(StagingFiles) }

\* find_raw_and_mzml_files: the files present, sorted
RECURSIVE find_from(_, _)
find_from(present, i) ==
    IF i > Len(StagingFiles) THEN <<>>
    ELSE (IF i \in present THEN <<StagingFiles[i]>> ELSE <<>>) \o find_from(present, i + 1)

find_raw_and_mzml_files(present) == find_from(present, 1)

\* what exists at <output>/<stem>.corems: nothing, a file, or a directory
\* that may hold <stem>.hdf5 and csv files
OutputStates ==
    [kind : {"absent", "file"}, hdf5 : {FALSE}, csv : {FALSE}]
      \cup [kind : {"dir"}, hdf5 : BOOLEAN, csv : BOOLEAN]

CompleteOutput == [kind |-> "dir", hdf5 |-> TRUE, csv |-> TRUE]

\* taking the directory alone as proof of a completed run
output_complete_Always(d) == TRUE

\* hdf5_file.exists() and len(csv_files) > 0
output_complete(d) == d.hdf5 /\ d.csv

\* the loop of check_already_processed from file i on
RECURSIVE check_from(_, _, _, _)
check_from(input, output_dir, i, acc) ==
    IF i > Len(input) THEN acc
    ELSE LET expected_output_dir == output_dir[stem(input[i])]
         IN  IF expected_output_dir.kind # "absent" /\ expected_output_dir.kind = "dir"
             THEN IF output_complete(expected_output_dir)
                  THEN check_from(input, output_dir, i + 1,
                                  [acc EXCEPT !.already_processed = Append(@, input[i])])
                  ELSE check_from(input, output_dir, i + 1,
                                  [acc EXCEPT !.files_to_process = Append(@, input[i])])
             ELSE check_from(input, output_dir, i + 1,
                             [acc EXCEPT !.files_to_process = Append(@, input[i])])

check_already_processed(input, output_dir) ==
    check_from(input, output_dir, 1, [files_to_process |-> <<>>, already_processed |-> <<>>])

BatchInit ==
    /\ LibIdle
    /\ FEIdle
    /\ WfIdle
    /\ RtIdle
    /\ GcIdle
    /\ PIdle
    /\ b_pc = "check"
    /\ \E present \in SUBSET (1..Len(StagingFiles)) :
          /\ present # {}
          /\ input_files = find_raw_and_mzml_files(present)
    /\ out_fs \in [Stems -> OutputStates]
    /\ files_to_process = <<>>
    /\ already_processed = <<>>
    /\ b_run = 1
    /\ b_last = "none"

\* files_to_process, already_processed = check_already_processed(...); with
\* nothing to process the script returns
BCheckAlreadyProcessed ==
    /\ b_pc = "check"
    /\ LET out == check_already_processed(input_files, out_fs)
       IN  /\ files_to_process' = out.files_to_process
           /\ already_processed' = out.already_processed
           /\ IF Len(out.files_to_process) = 0
              THEN b_pc' = "ended" /\ b_last' = "nothing_to_process"
              ELSE b_pc' = "workflow" /\ UNCHANGED b_last
    /\ UNCHANGED <<input_files, out_fs, b_run,
                   libVars, feVars, wfVars, rtVars, gcVars, pVars>>

\* the exports of the files to process numbered in done are complete
exported(done) ==
    [s \in Stems |->
        IF \E j \in done : stem(files_to_process[j]) = s THEN CompleteOutput ELSE out_fs[s]]

\* run_lcms_metabolomics_workflow(file_paths=...) on the files to process,
\* with cores = 5: export_results writes <stem>.corems/<stem>.hdf5, then the
\* csv report.  The workflow returns, having exported every file but those
\* it made no job for (a polarity neither positive nor negative); or it
\* raises at some file, whose export may have got as far as the hdf5, the
\* script catching the exception.
BRunWorkflow ==
    /\ b_pc = "workflow"
    /\ \E done \in SUBSET (1..Len(files_to_process)) :
          /\ \A j \in done : out_fs[stem(files_to_process[j])].kind # "file"
          /\ \/ /\ out_fs' = exported(done)
                /\ b_last' = IF done = 1..Len(files_to_process)
                             THEN "all_exported" ELSE "returned_without_some"
             \/ \E f \in (1..Len(files_to_process)) \ done :
                   /\ b_last' = "failed"
                   /\ LET s == stem(files_to_process[f])
                          before == exported(done)
                      IN  \/ out_fs' = before
                          \/ /\ before[s].kind # "file"
                             /\ \E hdf5_written \in BOOLEAN :
                                   out_fs' = [before EXCEPT ![s] =
                                                [kind |-> "dir",
                                                 hdf5 |-> before[s].hdf5 \/ hdf5_written,
                                                 csv |-> before[s].csv]]
    /\ b_pc' = "ended"
    /\ UNCHANGED <<input_files, files_to_process, already_processed, b_run,
                   libVars, feVars, wfVars, rtVars, gcVars, pVars>>

\* the script is started again on the same directories
BRerun ==
    /\ b_pc = "ended"
    /\ b_run < MaxRuns
    /\ b_run' = b_run + 1
    /\ b_pc' = "check"
    /\ files_to_process' = <<>>
    /\ already_processed' = <<>>
    /\ UNCHANGED <<input_files, out_fs, b_last,
                   libVars, feVars, wfVars, rtVars, gcVars, pVars>>

BatchNext ==
    \/ BCheckAlreadyProcessed
    \/ BRunWorkflow
    \/ BRerun

SpecBatch == BatchInit /\ [][BatchNext]_vars

\* <output>/<stem>.corems is a directory that holds <stem>.hdf5 and a csv file
HasCompleteOutput(f) ==
    LET d == out_fs[stem(f)] IN d.kind = "dir" /\ d.hdf5 /\ d.csv

LacksCompleteOutput(f) == ~HasCompleteOutput(f)

\* check_already_processed has returned and the output directory is as it saw it
JustChecked ==
    \/ b_pc = "workflow"
    \/ b_pc = "ended" /\ b_last = "nothing_to_process"

\* C30: check_already_processed partitions its input, keeping input order:
\* a file is in already_processed iff <output>/<stem>.corems is a directory
\* holding <stem>.hdf5 and at least one csv, and in files_to_process
\* otherwise; so a re-run after a fully successful run invokes the workflow
\* on no file, and a file with a partial output is processed again.
C30_AlreadyProcessedPartition ==
    /\ JustChecked =>
          /\ already_processed = SelectSeq(input_files, HasCompleteOutput)
          /\ files_to_process = SelectSeq(input_files, LacksCompleteOutput)
    /\ (b_run >= 2 /\ b_last = "all_exported") => b_pc # "workflow"

\* the second run of the script after a failed first run: a file with the
\* hdf5 but no csv is to be processed again, another file is skipped
C30_Witness ==
    /\ b_run = 2 /\ b_pc = "workflow" /\ b_last = "failed"
    /\ already_processed # <<>>
    /\ \E i \in 1..Len(files_to_process) :
          LET d == out_fs[stem(files_to_process[i])]
          IN  d.kind = "dir" /\ d.hdf5 /\ ~d.csv

====
